---- MODULE Spec2Model ----
(***************************************************************************)
(* Model of the network entity synchronisation hook (useNetworkEntity),    *)
(* the interpolator it uses, and the parts of GameSocketProvider and       *)
(* SocketClient that feed it.                                              *)
(*                                                                         *)
(* One binding (one mounted useNetworkEntity) is modelled together with    *)
(* the provider state it reads.  Every action is one JavaScript task: a    *)
(* socket event, a timer callback, an animation frame, a caller's          *)
(* setNetworkState, a re-render with new props.  A task that changes React *)
(* state is followed, inside the same action, by the re-run of the effects *)
(* whose dependency arrays changed (cleanup of the old effect, then the    *)
(* new effect).  Timers are ideal: an interval created at time c with      *)
(* period r runs its callback at c + r, c + 2r, ...                        *)
(* Numbers are exact rationals <<"num", n, d>>; other values are           *)
(* <<"str", i, 1>>.                                                        *)
(***************************************************************************)
EXTENDS Integers, Sequences, FiniteSets, TLC

\* ---------------------------------------------------------------- bounds
MaxTime == 4
Rooms == {"r1", "r2"}
EntityIds == {"A", "B"}
UserIds == {"u1", "u2", "u3"}
\* event names, and the callbacks of two bindings, two closures each
Events == {"entity:update", "room:presence"}
Callbacks == {"b1", "b2"} \X {0, 1}
\* socket listeners counted per event, sockets left alive counted (the
\* largest value stands for "or more")
MaxRelays == 2
MaxLeak == 2
Rates == {1, 2}
TSteps == 4

\* a broadcastRate whose three quarters are a whole number of milliseconds
MidRate == 4

\* ---------------------------------------------------------------- values
Null == <<>>
Some(v) == <<v>>
NoRoom == [roomId |-> "none", members |-> Null]

\* a 'room:presence' event
PresenceEvents == [roomId : Rooms, event : {"join", "leave"}, userId : UserIds]
NoPresence == [roomId |-> "none", event |-> "none", userId |-> "none"]
NoHandler == [on |-> FALSE]
NoTimer == [on |-> FALSE]
NoFrame == [on |-> FALSE]
NoJoin == "none"

\* events that setupBaseListeners relays from every socket it is given
BaseEvents == {"room:presence"}
BaseRelays == [ev \in Events |-> IF ev \in BaseEvents THEN 1 ELSE 0]
NoRelays == [ev \in Events |-> 0]
NoWire == [tracked |-> {}, relays |-> NoRelays, leaked |-> 0]

\* the room and messaging methods of SocketClient
Ops == {"createRoom", "joinRoom", "leaveRoom", "emitToRoom"}

\* what the server's ack callback is called with: nothing yet (noAck),
\* undefined, or an object that may carry ok and roomId
NoAck == [kind |-> "noAck", ok |-> "absent", roomId |-> "absent"]
Responses ==
    {[kind |-> k, ok |-> "absent", roomId |-> "absent"] : k \in {"noAck", "undefined"}}
        \union [kind : {"object"}, ok : {"absent", "false", "true"},
                roomId : {"absent", "r1"}]
NoResult == [sent |-> Null, outcome |-> "none", value |-> "none"]

\* the event each method emits on the socket
EmitName(op) ==
    CASE op = "createRoom" -> "room:create"
      [] op = "joinRoom" -> "room:join"
      [] op = "leaveRoom" -> "room:leave"
      [] op = "emitToRoom" -> "room:emit"

\* variant: any object the server acks with counts as success
AckOk_any(resp) == resp.kind = "object"

\* response && response.ok
AckOk(resp) == resp.kind = "object" /\ resp.ok = "true"

\* the JavaScript value undefined where a state is expected: it has no own
\* keys, spreads to nothing and a for-in loop over it runs no iteration
Undefined == <<>>

\* what reading payload.entityId gives when the payload has no entityId
Missing == "undefined"

\* room:emit envelopes for entity:update that are not { entityId, state }
Shapes == {"noPayload", "noEntityId", "noState"}

Num(n) == <<"num", n, 1>>
Str(i) == <<"str", i, 1>>
IsNumber(v) == v[1] = "num"

RECURSIVE Gcd(_, _)
Gcd(a, b) == IF b = 0 THEN a ELSE Gcd(b, a % b)

Abs(n) == IF n < 0 THEN -n ELSE n

Rat(n, d) ==
    LET g == Gcd(Abs(n), d)
    IN  IF g = 0 THEN <<"num", 0, 1>> ELSE <<"num", n \div g, d \div g>>

\* variant: the two weights are swapped
lerp_swapped(start, end, tn, td) ==
    Rat(start[2] * tn * end[3] + end[2] * (td - tn) * start[3],
        start[3] * end[3] * td)

\* start * (1 - t) + end * t, with t = tn / td
lerp(start, end, tn, td) ==
    Rat(start[2] * (td - tn) * end[3] + end[2] * tn * start[3],
        start[3] * end[3] * td)

\* variant: only the target's type is tested, and the arithmetic on a
\* current value that is no number gives NaN
interpolateState_targetType(currentState, targetState, tn, td) ==
    [key \in (DOMAIN currentState) \union (DOMAIN targetState) |->
        IF key \in DOMAIN targetState
        THEN IF IsNumber(targetState[key])
             THEN IF key \in DOMAIN currentState /\ IsNumber(currentState[key])
                  THEN lerp(currentState[key], targetState[key], tn, td)
                  ELSE <<"nan", 0, 1>>
             ELSE targetState[key]
        ELSE currentState[key]]

\* variant: the result starts from an empty object instead of a copy of
\* currentState
interpolateState_targetOnly(currentState, targetState, tn, td) ==
    [key \in DOMAIN targetState |->
        IF /\ IsNumber(targetState[key])
           /\ key \in DOMAIN currentState
           /\ IsNumber(currentState[key])
        THEN lerp(currentState[key], targetState[key], tn, td)
        ELSE targetState[key]]

\* result = { ...currentState }, then every key of targetState is
\* interpolated when both values are numbers and snapped otherwise
interpolateState(currentState, targetState, tn, td) ==
    [key \in (DOMAIN currentState) \union (DOMAIN targetState) |->
        IF key \in DOMAIN targetState
        THEN IF /\ IsNumber(targetState[key])
                /\ key \in DOMAIN currentState
                /\ IsNumber(currentState[key])
             THEN lerp(currentState[key], targetState[key], tn, td)
             ELSE targetState[key]
        ELSE currentState[key]]

\* typeof currentState[key] throws a TypeError when currentState is undefined
\* and the loop reaches a key whose target value is a number
InterpolateThrows(currentState, targetState) ==
    /\ currentState = Undefined
    /\ \E key \in DOMAIN targetState : IsNumber(targetState[key])

\* the inputs interpolateState is applied to: every object over the keys
\* x and tag, a key absent or holding a number or another value
InterpValues == {Num(0), Num(6), <<"num", -3, 2>>, Str(0), Str(1)}
InterpStates ==
    UNION {[keys -> InterpValues] : keys \in SUBSET {"x", "tag"}}

\* the states callers and remote owners supply
InitialState == ("x" :> Num(0)) @@ ("tag" :> Str(0))
StateInputs ==
    { ("x" :> Num(6)) @@ ("tag" :> Str(1)),
      ("x" :> Num(12)) }

\* setNetworkState argument: a value, or a function of the previous state
Updaters == {[fn |-> FALSE, v |-> s] : s \in StateInputs}
            \union {[fn |-> TRUE, v |-> s] : s \in StateInputs}

\* (prev) => ({ ...prev, ...v })
Merge(prev, v) ==
    [key \in (DOMAIN prev) \union (DOMAIN v) |->
        IF key \in DOMAIN v THEN v[key] ELSE prev[key]]

\* variant: the function is applied to the initial state, not the previous one
Resolve_stale(newState, prev) ==
    IF newState.fn THEN Merge(InitialState, newState.v) ELSE newState.v

\* typeof newState === 'function' ? newState(prev) : newState
Resolve(newState, prev) ==
    IF newState.fn THEN Merge(prev, newState.v) ELSE newState.v

VARIABLES
    \* SocketClient / GameSocketProvider
    sock,                 \* this.socket: "none", "connecting", "connected"
    isConnected,          \* connectionStatus.connected
    currentRoom,          \* NoRoom or [roomId |-> r]
    join,                 \* roomId whose room:join was acked, REST fetch running
    listeners,            \* this.listeners: per event, the callbacks registered by
                          \* callers other than the binding (its own is in handler)
    wire,                 \* followed under watch = "wire": the events that have an
                          \* entry in this.listeners (tracked), per event the
                          \* listeners on this.socket that call notifyListeners
                          \* (relays), and the sockets that connect() replaced
                          \* without disconnecting them (leaked)
    \* the binding's options
    mounted, entityId, isOwner, broadcastRate, enableInterpolation,
    \* the binding's state and refs
    state, targetStateRef, lastStateRef, lastUpdateTsRef, pendingUpdateRef,
    \* the binding's live effects
    handler,              \* onEntityUpdate closure registered with client.on
    interval,             \* setInterval timer of the broadcasting loop
    frame,                \* requested animation frame of the interpolation loop
    \* environment
    now,                  \* Date.now()
    out,                  \* messages the last task handed to socket.emit
    \* observation of the last task
    step,
    watch,                \* what this run records: "writes", "rate", "offline",
                          \* "updates" or "life"
    \* observation of the run so far
    writes,               \* Owner writes since the last broadcast tick (0, 1, 2 = many)
    lastResolved,         \* value resolved by the Owner's last setNetworkState
    stagedOffline,        \* value staged while disconnected or room-less, still due
    lastEmitTs,           \* time of the binding's last emission, -1 if none
    stagedFor,            \* entityId the binding had when the pending value was staged
    inflight,             \* state of the last emission while its ack is awaited
    restarted,            \* the interval was started again since the last emission
    everOwner,            \* the binding has been an Owner at some time
    updates,              \* matching inbound updates an Observer handled (0, 1, 2 = many)
    inState,              \* state of the last such update, if taken as interpolation target
    inTs,                 \* time the last such update arrived, -1 if none
    settled,              \* a render tick ran at inTs + 1.5 * broadcastRate or later,
                          \* and no local write followed it; under watch = "tick":
                          \* a render tick ran with t >= 1 and neither a matching
                          \* update nor a local write followed it
    wroteSince,           \* the caller wrote locally after the last such update
    arrived               \* the last such update came after a render tick had
                          \* brought the visible state to the target before it

provVars == <<sock, isConnected, currentRoom, join, listeners, wire>>
propVars == <<mounted, entityId, isOwner, broadcastRate, enableInterpolation>>
refVars  == <<targetStateRef, lastStateRef, lastUpdateTsRef, pendingUpdateRef>>
effVars  == <<handler, interval, frame>>
ownVars  == <<writes, lastResolved, stagedOffline, lastEmitTs, restarted,
              stagedFor, inflight>>
obsVars  == <<updates, inState, inTs, settled, wroteSince, arrived>>
vars == <<provVars, propVars, state, refVars, effVars, now, out, step, watch,
          ownVars, everOwner, obsVars>>

Min(a, b) == IF a < b THEN a ELSE b

\* what a task that is no callback of the binding leaves in step:
\*   act       the callback of the binding that ran, else "other"
\*   inId      entityId of the update the task delivered, else "none"
\*   writes    Owner writes the broadcast tick found since the tick before
\*   staged    the value staged offline that the broadcast tick found
\*   gap       time since the previous emission when the tick emitted again, else -1
\*   restarted the interval was started again between those two emissions
\*   shape     "ok", or how the delivered envelope was malformed
\*   threw     the callback ended in an uncaught TypeError
\*   arg       the argument of setNetworkState
\*   t         the fraction <<numerator, denominator>> interpolateState was called with
\*   ack       "ok" or "nack" when the task was the ack of an emission, else "none"
\*   ev        the event SocketClient.on, off or notifyListeners was called with
\*   cb        the callback SocketClient.on or off was called with, else "none"
\*   notified  the callbacks notifyListeners called
\*   calls     how often a socket event made notifyListeners run for its event
\*   data, before   the 'room:presence' event handlePresence got and the
\*             room it found (under watch = "presence")
\*   op, resp, result   a room or messaging call of SocketClient, the
\*             server's answer to it and what became of the promise
Watches == {"writes", "rate", "offline", "updates", "life", "shape", "mutator",
            "receipt", "render", "interp", "carry", "join", "starve", "lag",
            "tick", "retry", "listen", "wire", "call", "presence"}

Quiet == [act |-> "other", inId |-> "none", writes |-> 0, staged |-> Null,
          gap |-> -1, restarted |-> FALSE, shape |-> "ok", threw |-> FALSE,
          arg |-> Null, t |-> <<0, 1>>, ack |-> "none", ev |-> "none",
          cb |-> "none", notified |-> {}, calls |-> 0,
          op |-> "none", resp |-> NoAck, result |-> NoResult,
          data |-> NoPresence, before |-> NoRoom]

\* ------------------------------------------------------ effects of the hook
\* client.off in the cleanup of the subscription effect
Unsubscribe(h) == NoHandler

\* Body and cleanup of the subscription effect: returns early without a
\* room, else registers a handler closed over entityId, isOwner, state and
\* enableInterpolation.
Resubscribe ==
    handler' = IF mounted' /\ currentRoom' # NoRoom
               THEN [on |-> TRUE, entityId |-> entityId', isOwner |-> isOwner',
                     state |-> state', enableInterpolation |-> enableInterpolation']
               ELSE Unsubscribe(handler)

\* Subscription effect, run with the task that changed a dependency.  It is
\* a passive effect (useEffect): under watch = "lag" it runs in a task of
\* its own, flushPassiveEffects, after the change was committed.
SubscriptionEffect ==
    IF watch = "lag" THEN UNCHANGED handler ELSE Resubscribe

\* variant: the guard does not look at the connection status
BroadcastGuard_noConn(own, conn, room) == own /\ room # NoRoom

\* if (!isOwner || !isConnected || !currentRoom) return
BroadcastGuard(own, conn, room) == own /\ conn /\ room # NoRoom

\* variant: the callback also runs at once when the interval is started
FirstFire_now(t, rate) == t

\* setInterval(cb, broadcastRate): first callback one period after the call
FirstFire(t, rate) == t + rate

\* variant: the cleanup leaves the interval running
ClearInterval_leak(iv) == iv

\* clearInterval in the cleanup of the broadcasting loop
ClearInterval(iv) == NoTimer

\* Broadcasting loop: when a dependency changed the old interval is cleared
\* and, if the guard passes, a new one is started from the current time.
BroadcastEffect(roomReplaced) ==
    LET same == /\ ~roomReplaced
                /\ currentRoom' = currentRoom
                /\ isOwner' = isOwner
                /\ isConnected' = isConnected
                /\ entityId' = entityId
                /\ broadcastRate' = broadcastRate
        starts == BroadcastGuard(isOwner', isConnected', currentRoom')
    IN  /\ interval' =
              IF ~mounted' THEN ClearInterval(interval)
              ELSE IF same THEN interval
              ELSE IF ~starts THEN ClearInterval(interval)
              ELSE [on |-> TRUE, roomId |-> currentRoom'.roomId,
                    entityId |-> entityId', rate |-> broadcastRate',
                    nextFire |-> FirstFire(now, broadcastRate')]
        /\ restarted' = IF watch = "rate"
                         THEN restarted \/ (mounted' /\ ~same /\ starts /\ interval.on)
                         ELSE restarted

\* variant: the loop does not look at the interpolation option
InterpolationGuard_noOption(own, interp) == ~own

\* if (isOwner || !enableInterpolation) return
InterpolationGuard(own, interp) == ~own /\ interp

\* cancelAnimationFrame in the cleanup of the interpolation loop
CancelFrame(f) == NoFrame

\* Interpolation loop: when a dependency changed the pending frame is
\* cancelled and, unless the guard returns early, a frame is requested;
\* animate is closed over broadcastRate.
InterpolationEffect ==
    LET same == /\ isOwner' = isOwner
                /\ enableInterpolation' = enableInterpolation
                /\ broadcastRate' = broadcastRate
    IN  frame' = IF ~mounted' THEN CancelFrame(frame)
                 ELSE IF same THEN frame
                 ELSE IF InterpolationGuard(isOwner', enableInterpolation')
                 THEN [on |-> TRUE, rate |-> broadcastRate']
                 ELSE CancelFrame(frame)

\* SocketClient.emitToRoom: rejects without a socket, else socket.emit
emitToRoom(roomId, event, payload) ==
    IF sock = "none"
    THEN <<>>
    ELSE <<[roomId |-> roomId, event |-> event,
            entityId |-> payload.entityId, state |-> payload.state]>>

Init ==
    /\ sock = "none"
    /\ isConnected = FALSE
    /\ currentRoom = NoRoom
    /\ join = NoJoin
    /\ listeners = [ev \in Events |-> {}]
    /\ wire = NoWire
    /\ mounted = TRUE
    /\ entityId \in EntityIds
    /\ isOwner \in BOOLEAN
    /\ broadcastRate \in Rates
    /\ enableInterpolation \in BOOLEAN
    /\ state = InitialState
    /\ targetStateRef = InitialState
    /\ lastStateRef = InitialState
    /\ lastUpdateTsRef = 0
    /\ pendingUpdateRef = Null
    /\ handler = NoHandler
    /\ interval = NoTimer
    /\ frame = IF InterpolationGuard(isOwner, enableInterpolation)
               THEN [on |-> TRUE, rate |-> broadcastRate] ELSE NoFrame
    /\ now = 0
    /\ out = <<>>
    /\ step = Quiet
    /\ watch \in Watches
    /\ writes = 0
    /\ lastResolved = Null
    /\ stagedOffline = Null
    /\ lastEmitTs = -1
    /\ stagedFor = "none"
    /\ inflight = Null
    /\ restarted = FALSE
    /\ everOwner = (watch = "life" /\ isOwner)
    /\ updates = 0
    /\ inState = Null
    /\ inTs = -1
    /\ settled = FALSE
    /\ wroteSince = FALSE
    /\ arrived = FALSE

\* -------------------------------------------------- provider and client
\* what every provider task leaves alone, and the effects it re-runs
ProviderRun(roomReplaced, seen) ==
    /\ UNCHANGED <<propVars, state, refVars, now, writes, lastResolved,
                   stagedOffline, lastEmitTs, stagedFor, inflight, listeners,
                   everOwner, obsVars>>
    /\ SubscriptionEffect
    /\ BroadcastEffect(roomReplaced)
    /\ InterpolationEffect
    /\ out' = <<>>
    /\ step' = seen
    /\ UNCHANGED watch

ProviderTask(roomReplaced) == ProviderRun(roomReplaced, Quiet)

\* a provider task that leaves the socket's listeners alone
ProviderStep(roomReplaced) ==
    /\ ProviderTask(roomReplaced)
    /\ UNCHANGED wire

\* this.socket = io(...) and setupBaseListeners(): the new socket has the
\* base listeners only; the socket it replaces is disconnected only if it
\* was connected, so one that was still connecting stays alive
NewSocket(w) ==
    [w EXCEPT !.relays = BaseRelays,
              !.leaked = IF sock = "connecting" THEN Min(@ + 1, MaxLeak) ELSE @]

\* the 'connect' handler of setupBaseListeners: every tracked event that is
\* no base event and has no listener on the socket gets one
Reattach(w) ==
    [w EXCEPT !.relays = [ev \in Events |->
                            IF ev \in w.tracked /\ ev \notin BaseEvents /\ @[ev] = 0
                            THEN 1 ELSE @[ev]]]

\* on(event, callback) for an event that has no entry in this.listeners:
\* the entry is made and, if there is a socket, a listener is put on it
Track(w, ev) ==
    IF ev \in w.tracked THEN w
    ELSE [w EXCEPT !.tracked = @ \union {ev},
                   !.relays[ev] = IF sock # "none" THEN Min(@ + 1, MaxRelays) ELSE @]

\* connect(url, auth): a socket connected with another config is
\* disconnected first (its 'disconnect' event runs handleDisconnect).
\* sock follows this.socket only: a socket that was still connecting when
\* connect() replaced it is counted in wire.leaked and not followed further.
Connect(sameConfig) ==
    /\ IF sock = "connected" /\ sameConfig
       THEN UNCHANGED <<sock, isConnected, currentRoom, wire>>
       ELSE /\ sock' = "connecting"
            /\ wire' = IF watch = "wire" THEN NewSocket(wire) ELSE wire
            /\ IF sock = "connected"
               THEN isConnected' = FALSE /\ currentRoom' = NoRoom
               ELSE UNCHANGED <<isConnected, currentRoom>>
    /\ UNCHANGED join
    /\ ProviderTask(FALSE)

\* socket 'connect' event -> handleConnect
handleConnect ==
    /\ sock = "connecting"
    /\ sock' = "connected"
    /\ isConnected' = TRUE
    /\ wire' = IF watch = "wire" THEN Reattach(wire) ELSE wire
    /\ UNCHANGED <<currentRoom, join>>
    /\ ProviderTask(FALSE)

\* socket 'disconnect' event (connection lost, socket reconnects) -> handleDisconnect
handleDisconnect ==
    /\ sock = "connected"
    /\ sock' = "connecting"
    /\ isConnected' = FALSE
    /\ currentRoom' = NoRoom
    /\ UNCHANGED join
    /\ ProviderStep(FALSE)

\* disconnect(): client.disconnect() closes the socket and drops it
Disconnect ==
    /\ sock # "none"
    /\ sock' = "none"
    /\ wire' = IF watch = "wire" THEN [wire EXCEPT !.relays = NoRelays] ELSE wire
    /\ IF sock = "connected"
       THEN isConnected' = FALSE /\ currentRoom' = NoRoom
       ELSE UNCHANGED <<isConnected, currentRoom>>
    /\ UNCHANGED join
    /\ ProviderTask(FALSE)

\* joinRoom: the room:join ack arrived with ok, restClient.listRooms() starts
joinRoomAck(r) ==
    /\ sock = "connected"
    /\ join = NoJoin
    /\ join' = r
    /\ UNCHANGED <<sock, isConnected, currentRoom>>
    /\ ProviderStep(FALSE)

\* the member lists a room fetched or built by joinRoom can have: any list
\* without two members of one userId (followed under watch = "presence")
DupFree(list) ==
    \A i, j \in 1..Len(list) : list[i].userId = list[j].userId => i = j
MemberLists ==
    {list \in UNION {[1..n -> [userId : UserIds]] : n \in 0..Cardinality(UserIds)} :
        DupFree(list)}
RoomMembers == IF watch = "presence" THEN {Some(list) : list \in MemberLists} ELSE {Null}

\* joinRoom: listRooms settled, setCurrentRoom(room or fallback room)
joinRoomDone ==
    /\ join # NoJoin
    /\ \E m \in RoomMembers : currentRoom' = [roomId |-> join, members |-> m]
    /\ join' = NoJoin
    /\ UNCHANGED <<sock, isConnected>>
    /\ ProviderStep(TRUE)

\* createRoom: the room:create ack arrived, setCurrentRoom(room) follows
\* in the same task
createRoom(r) ==
    /\ sock = "connected"
    /\ currentRoom' = [roomId |-> r, members |-> Null]
    /\ UNCHANGED <<sock, isConnected, join>>
    /\ ProviderStep(TRUE)

\* leaveRoom: returns early without a room, else setCurrentRoom(null) on
\* the ack; call and ack are one step
leaveRoom ==
    /\ currentRoom # NoRoom
    /\ sock = "connected"
    /\ currentRoom' = NoRoom
    /\ UNCHANGED <<sock, isConnected, join>>
    /\ ProviderStep(FALSE)

\* prev.members || []
MembersOf(room) == IF room.members = Null THEN <<>> ELSE room.members[1]

HasMember(list, u) == \E i \in 1..Len(list) : list[i].userId = u

\* variant: a join is appended without looking for the user in the list
AddMember_always(list, u) == Append(list, [userId |-> u])

\* 'join': push unless find() gets a member with the userId
AddMember(list, u) ==
    IF HasMember(list, u) THEN list ELSE Append(list, [userId |-> u])

\* 'leave': findIndex and splice(idx, 1) take out the first member with
\* the userId
RemoveMember(list, u) ==
    IF ~HasMember(list, u) THEN list
    ELSE LET idx == CHOOSE i \in 1..Len(list) :
                        /\ list[i].userId = u
                        /\ \A j \in 1..(i - 1) : list[j].userId # u
         IN  [i \in 1..(Len(list) - 1) |-> IF i < idx THEN list[i] ELSE list[i + 1]]

\* the updater handlePresence gives setCurrentRoom
PresenceUpdate(prev, data) ==
    IF prev = NoRoom \/ prev.roomId # data.roomId THEN prev
    ELSE [prev EXCEPT !.members =
            Some(IF data.event = "join" THEN AddMember(MembersOf(prev), data.userId)
                 ELSE IF data.event = "leave"
                      THEN RemoveMember(MembersOf(prev), data.userId)
                      ELSE MembersOf(prev))]

\* 'room:presence' event: a new room object when the roomId matches. The
\* member list is followed under watch = "presence".
handlePresence(data) ==
    /\ sock = "connected"
    /\ currentRoom' = IF watch = "presence" THEN PresenceUpdate(currentRoom, data)
                      ELSE currentRoom
    /\ UNCHANGED <<sock, isConnected, join>>
    /\ ProviderRun(currentRoom # NoRoom /\ currentRoom.roomId = data.roomId,
                   IF watch = "presence"
                   THEN [Quiet EXCEPT !.act = "presence", !.data = data,
                                      !.before = currentRoom]
                   ELSE Quiet)
    /\ UNCHANGED wire

\* ------------------------------------------------------------ the binding
\* variant: a value already staged is kept, later writes are dropped
StagePending_keepFirst(own, pending, resolved) ==
    IF own /\ pending = Null THEN Some(resolved) ELSE pending

\* variant: a write is staged only while the transport is available
StagePending_online(own, pending, resolved) ==
    IF own /\ isConnected /\ currentRoom # NoRoom THEN Some(resolved) ELSE pending

\* variant: every role stages its writes
StagePending_anyRole(own, pending, resolved) == Some(resolved)

\* if (isOwner) pendingUpdateRef.current = resolved
StagePending(own, pending, resolved) == IF own THEN Some(resolved) ELSE pending

\* setNetworkState(newState): the updater resolves the value, stages it for
\* an Owner, and the new state re-runs the subscription effect
setNetworkState(newState) ==
    /\ mounted
    /\ LET resolved == Resolve(newState, state)
       IN  /\ state' = resolved
           /\ pendingUpdateRef' = StagePending(isOwner, pendingUpdateRef, resolved)
           /\ lastResolved' = IF watch \in {"writes", "mutator", "retry"} /\ isOwner
                              THEN Some(resolved) ELSE lastResolved
           /\ stagedOffline' =
                 IF watch # "offline" \/ ~isOwner THEN stagedOffline
                 ELSE IF ~isConnected \/ currentRoom = NoRoom THEN Some(resolved)
                 ELSE Null
    /\ writes' = IF watch \in {"writes", "mutator", "retry"} /\ isOwner
                 THEN Min(writes + 1, 2) ELSE writes
    /\ settled' = FALSE
    /\ wroteSince' = (watch \in {"receipt", "tick"})
    /\ stagedFor' = IF watch = "carry" /\ isOwner THEN entityId ELSE stagedFor
    /\ UNCHANGED <<watch, inflight>>
    /\ UNCHANGED <<provVars, propVars, targetStateRef, lastStateRef, lastUpdateTsRef,
                   interval, frame, now, lastEmitTs, restarted, everOwner,
                   updates, inState, inTs, arrived>>
    /\ SubscriptionEffect
    /\ out' = <<>>
    /\ step' = [Quiet EXCEPT !.act = "setNetworkState",
                             !.arg = IF watch = "mutator" THEN Some(newState) ELSE Null]

\* variant: the handler takes updates of every entity
Matches_anyEntity(h, data) == data.event = "entity:update"

\* data.event === 'entity:update' && data.payload.entityId === entityId
Matches(h, data) == data.event = "entity:update" /\ data.payload.entityId = h.entityId

\* variant: an Owner takes inbound updates too
Accepts_anyRole(h) == TRUE

\* variant: the role test is inverted
Accepts_owner(h) == h.isOwner

\* if (!isOwner)
Accepts(h) == ~h.isOwner

\* variant: interpolation starts from the previous target
LastVisual_target(h) == targetStateRef

\* lastStateRef.current = state, the visible state the handler closed over
LastVisual(h) == h.state

\* the handler registered by the subscription effect, run on one event
onEntityUpdate(h, data) ==
    IF Matches(h, data) /\ Accepts(h)
    THEN /\ IF h.enableInterpolation
            THEN /\ lastStateRef' = LastVisual(h)
                 /\ targetStateRef' = data.payload.state
                 /\ lastUpdateTsRef' = now
                 /\ state' = state
            ELSE /\ state' = data.payload.state
                 /\ UNCHANGED <<lastStateRef, targetStateRef, lastUpdateTsRef>>
         /\ IF watch \in {"updates", "receipt", "render", "tick"}
            THEN /\ updates' = Min(updates + 1, 2)
                 /\ inState' = IF h.enableInterpolation \/ watch = "receipt"
                               THEN Some(data.payload.state) ELSE Null
                 /\ inTs' = now
            ELSE UNCHANGED <<updates, inState, inTs>>
         /\ settled' = FALSE
         /\ wroteSince' = FALSE
         /\ arrived' = (watch = "render" /\ settled)
    ELSE UNCHANGED <<state, lastStateRef, targetStateRef, lastUpdateTsRef, obsVars>>

\* a 'room:emit' envelope carrying entity:update arrives on the socket and
\* notifyListeners hands it to the registered handler, if any
deliver(e, s) ==
    /\ sock = "connected"
    /\ LET data == [event |-> "entity:update", payload |-> [entityId |-> e, state |-> s]]
       IN  IF handler.on
           THEN /\ onEntityUpdate(handler, data)
                /\ step' = [Quiet EXCEPT !.act = "onEntityUpdate", !.inId = e]
           ELSE /\ UNCHANGED <<state, lastStateRef, targetStateRef, lastUpdateTsRef, obsVars>>
                /\ step' = [Quiet EXCEPT !.inId = e]
    /\ UNCHANGED <<provVars, propVars, pendingUpdateRef, interval, frame, now,
                   ownVars, everOwner>>
    /\ SubscriptionEffect
    /\ out' = <<>>
    /\ UNCHANGED watch

\* a 'room:emit' envelope for entity:update arrives whose payload is
\* missing, or lacks entityId, or lacks state.  Without a payload the
\* handler's read of data.payload.entityId throws a TypeError, which
\* notifyListeners does not catch.
deliverMalformed(shape, e, s) ==
    /\ sock = "connected"
    /\ LET data == [event |-> "entity:update",
                    payload |-> [entityId |-> IF shape = "noEntityId" THEN Missing ELSE e,
                                 state |-> IF shape = "noState" THEN Undefined ELSE s]]
       IN  IF handler.on /\ shape # "noPayload"
           THEN /\ onEntityUpdate(handler, data)
                /\ step' = [Quiet EXCEPT !.act = "onEntityUpdate",
                                         !.inId = data.payload.entityId,
                                         !.shape = shape]
           ELSE /\ UNCHANGED <<state, lastStateRef, targetStateRef, lastUpdateTsRef, obsVars>>
                /\ step' = [Quiet EXCEPT !.act = IF handler.on THEN "onEntityUpdate"
                                                 ELSE "other",
                                         !.shape = shape,
                                         !.threw = handler.on]
    /\ UNCHANGED <<provVars, propVars, pendingUpdateRef, interval, frame, now,
                   ownVars, everOwner>>
    /\ SubscriptionEffect
    /\ out' = <<>>
    /\ UNCHANGED watch

\* variant: the value stays staged and is sent again (heartbeat)
PendingAfterSend_keep == pendingUpdateRef

\* pendingUpdateRef.current = null, after the value was handed to emitToRoom
PendingAfterSend == Null

\* the setInterval callback of the broadcasting loop
broadcastTick ==
    /\ interval.on
    /\ interval.nextFire <= now
    /\ IF pendingUpdateRef # Null
       THEN /\ out' = emitToRoom(interval.roomId, "entity:update",
                         [entityId |-> interval.entityId, state |-> pendingUpdateRef[1]])
            /\ pendingUpdateRef' = PendingAfterSend
       ELSE /\ out' = <<>>
            /\ UNCHANGED pendingUpdateRef
    /\ interval' = [interval EXCEPT !.nextFire = @ + interval.rate]
    /\ step' = [Quiet EXCEPT !.act = "broadcastTick", !.writes = writes,
                             !.staged = stagedOffline,
                             !.gap = IF out' # <<>> /\ lastEmitTs >= 0
                                     THEN now - lastEmitTs ELSE -1,
                             !.restarted = (out' # <<>> /\ lastEmitTs >= 0 /\ restarted)]
    /\ lastEmitTs' = IF watch = "rate" /\ out' # <<>> THEN now ELSE lastEmitTs
    /\ restarted' = IF out' # <<>> THEN FALSE ELSE restarted
    /\ inflight' = IF watch = "retry" /\ out' # <<>>
                   THEN Some(out'[1].state) ELSE inflight
    /\ UNCHANGED <<watch, stagedFor>>
    /\ writes' = 0
    /\ stagedOffline' = Null
    /\ UNCHANGED <<provVars, propVars, state, targetStateRef, lastStateRef,
                   lastUpdateTsRef, handler, frame, now, lastResolved, everOwner,
                   obsVars>>

\* variant: the buffer factor is 0.5 instead of 1.5
Buffer_half(rate) == <<rate, 2>>

\* variant: the interpolation window is twice the broadcast interval
Buffer_double(rate) == <<2 * rate, 1>>

\* const buffer = broadcastRate * 1.5, as the fraction <<numerator, denominator>>
Buffer(rate) == <<3 * rate, 2>>

\* variant: the loop ends once the target is reached
RequestNext_untilTarget(f, tn, td) == IF tn < td THEN f ELSE NoFrame

\* animationFrameId = requestAnimationFrame(animate), in both branches
RequestNext(f, tn, td) == f

\* variant: the elapsed time is taken with the wrong sign
TimeSinceUpdate_reversed(t, ts) == ts - t

\* const timeSinceUpdate = now - lastUpdateTsRef.current
TimeSinceUpdate(t, ts) == t - ts

\* variant: the interpolation starts from the visible state
InterpolationStart_visible == state

\* the first argument of interpolateState in animate: lastStateRef.current
InterpolationStart == lastStateRef

\* the requestAnimationFrame callback of the interpolation loop:
\* t = timeSinceUpdate / buffer, clamped to 1.  When interpolateState
\* throws, neither setState nor the next requestAnimationFrame is reached.
animate ==
    /\ frame.on
    /\ LET timeSinceUpdate == TimeSinceUpdate(now, lastUpdateTsRef)
           buffer == Buffer(frame.rate)
           tn == timeSinceUpdate * buffer[2]
           td == buffer[1]
           throws == tn < td /\ InterpolateThrows(InterpolationStart, targetStateRef)
       IN  /\ state' = IF throws THEN state
                       ELSE IF tn < td
                       THEN interpolateState(InterpolationStart, targetStateRef, tn, td)
                       ELSE targetStateRef
           /\ frame' = IF throws THEN NoFrame ELSE RequestNext(frame, tn, td)
           /\ step' = [Quiet EXCEPT !.act = "animate", !.threw = throws,
                                    !.t = IF watch # "tick" THEN Quiet.t
                                          ELSE IF tn > td THEN <<td, td>>
                                          ELSE <<tn, td>>]
           /\ settled' = IF watch = "tick" THEN settled \/ tn >= td
                         ELSE (watch \in {"updates", "render"} /\ inTs >= 0
                                 /\ 2 * (now - inTs) >= 3 * broadcastRate)
    /\ UNCHANGED <<provVars, propVars, refVars, interval, now,
                   ownVars, everOwner, updates, inState, inTs, wroteSince, arrived>>
    /\ SubscriptionEffect
    /\ out' = <<>>
    /\ UNCHANGED watch

\* the component re-renders with other options; every effect whose
\* dependencies changed is cleaned up and run again
rerender(e, o, r, i) ==
    /\ mounted
    /\ <<e, o, r, i>> # <<entityId, isOwner, broadcastRate, enableInterpolation>>
    /\ entityId' = e
    /\ isOwner' = o
    /\ broadcastRate' = r
    /\ enableInterpolation' = i
    /\ everOwner' = (everOwner \/ (watch = "life" /\ o))
    /\ UNCHANGED <<provVars, mounted, state, refVars, now, writes, lastResolved,
                   stagedOffline, lastEmitTs, stagedFor, inflight, obsVars>>
    /\ SubscriptionEffect
    /\ BroadcastEffect(FALSE)
    /\ InterpolationEffect
    /\ out' = <<>>
    /\ step' = Quiet
    /\ UNCHANGED watch

\* the component unmounts: the cleanup of every live effect runs
unmount ==
    /\ mounted
    /\ mounted' = FALSE
    /\ UNCHANGED <<provVars, entityId, isOwner, broadcastRate, enableInterpolation,
                   state, refVars, now, writes, lastResolved, stagedOffline,
                   lastEmitTs, stagedFor, inflight, everOwner, obsVars>>
    /\ SubscriptionEffect
    /\ BroadcastEffect(FALSE)
    /\ InterpolationEffect
    /\ out' = <<>>
    /\ step' = Quiet
    /\ UNCHANGED watch

\* a millisecond passes; a due interval callback runs before time moves on
advance ==
    /\ now < MaxTime
    /\ ~(interval.on /\ interval.nextFire <= now)
    /\ now' = now + 1
    /\ UNCHANGED <<provVars, propVars, state, refVars, effVars, ownVars,
                   everOwner, obsVars>>
    /\ out' = <<>>
    /\ step' = Quiet
    /\ UNCHANGED watch

\* variant: off drops every callback of the event
Off_all(set, cb) == {}

\* this.listeners.get(event)?.delete(callback)
Off(set, cb) == set \ {cb}

\* SocketClient.on(event, callback): the callback joins the event's Set
on(ev, cb) ==
    /\ listeners' = [listeners EXCEPT ![ev] = @ \union {cb}]
    /\ wire' = IF watch = "wire" THEN Track(wire, ev) ELSE wire
    /\ step' = [Quiet EXCEPT !.act = "on", !.ev = ev, !.cb = cb]
    /\ out' = <<>>
    /\ UNCHANGED <<sock, isConnected, currentRoom, join, propVars, state, refVars,
                   effVars, now, watch, ownVars, everOwner, obsVars>>

\* SocketClient.off(event, callback)
off(ev, cb) ==
    /\ listeners' = [listeners EXCEPT ![ev] = Off(@, cb)]
    /\ UNCHANGED wire
    /\ step' = [Quiet EXCEPT !.act = "off", !.ev = ev, !.cb = cb]
    /\ out' = <<>>
    /\ UNCHANGED <<sock, isConnected, currentRoom, join, propVars, state, refVars,
                   effVars, now, watch, ownVars, everOwner, obsVars>>

\* SocketClient.notifyListeners(event, data): every callback in the event's
\* Set is called once
notifyListeners(ev) ==
    /\ step' = [Quiet EXCEPT !.act = "notifyListeners", !.ev = ev,
                             !.notified = listeners[ev]]
    /\ out' = <<>>
    /\ UNCHANGED <<provVars, propVars, state, refVars, effVars, now, watch, ownVars,
                   everOwner, obsVars>>

\* createRoom, joinRoom, leaveRoom, emitToRoom: the promise each returns.
\* Without a socket it is rejected before anything is emitted. With one the
\* request is emitted and the ack callback settles the promise: createRoom
\* resolves with whatever the ack carries, the others resolve if
\* `response && response.ok` and reject if not. Until an ack comes the
\* promise stays pending.
Settle(op, roomId, hasSocket, resp) ==
    LET request == Some([event |-> EmitName(op), roomId |-> roomId])
    IN  IF ~hasSocket
        THEN [sent |-> Null, outcome |-> "rejected", value |-> "No socket connection"]
        ELSE IF resp.kind = "noAck"
        THEN [sent |-> request, outcome |-> "pending", value |-> "none"]
        ELSE IF op = "createRoom"
        THEN [sent |-> request, outcome |-> "resolved", value |-> "response"]
        ELSE IF AckOk(resp)
        THEN [sent |-> request, outcome |-> "resolved",
              value |-> IF op = "joinRoom" THEN "response" ELSE "true"]
        ELSE [sent |-> request, outcome |-> "rejected",
              value |-> IF op = "joinRoom" THEN "response" ELSE "false"]

\* one call of a room or messaging method, followed until its promise
\* settles or is known to stay pending
call(op, roomId, resp) ==
    /\ step' = [Quiet EXCEPT !.act = "call", !.op = op, !.resp = resp,
                             !.result = Settle(op, roomId, sock # "none", resp)]
    /\ out' = <<>>
    /\ UNCHANGED <<provVars, propVars, state, refVars, effVars, now, watch, ownVars,
                   everOwner, obsVars>>

\* an event arrives on this.socket, under its own name or in a 'room:emit'
\* envelope whose event field names it: every listener of the socket for
\* the name runs notifyListeners once (the envelope has the one base
\* listener, which calls notifyListeners for the named event once)
socketEvent(ev, viaEnvelope) ==
    /\ sock = "connected"
    /\ LET calls == IF viaEnvelope THEN 1 ELSE wire.relays[ev]
       IN  step' = [Quiet EXCEPT !.act = "socketEvent", !.ev = ev, !.calls = calls,
                                 !.notified = IF calls > 0 THEN listeners[ev] ELSE {}]
    /\ out' = <<>>
    /\ UNCHANGED <<provVars, propVars, state, refVars, effVars, now, watch, ownVars,
                   everOwner, obsVars>>

\* variant: a value whose send failed is staged again unless a newer one waits
OnSendFailure_restage(ok, pending, value) ==
    IF ok \/ pending # Null THEN pending ELSE Some(value)

\* the promise returned by emitToRoom is dropped by the interval callback:
\* nothing runs in the binding when it settles
OnSendFailure(ok, pending, value) == pending

\* the server's ack of the last 'room:emit' arrives: the promise of
\* emitToRoom resolves (response.ok) or rejects
ack(ok) ==
    /\ sock = "connected"
    /\ inflight # Null
    /\ inflight' = Null
    /\ pendingUpdateRef' = OnSendFailure(ok, pendingUpdateRef, inflight[1])
    /\ step' = [Quiet EXCEPT !.act = "ack", !.ack = IF ok THEN "ok" ELSE "nack"]
    /\ out' = <<>>
    /\ UNCHANGED <<provVars, propVars, state, targetStateRef, lastStateRef,
                   lastUpdateTsRef, effVars, now, watch, writes, lastResolved,
                   stagedOffline, lastEmitTs, restarted, stagedFor, everOwner,
                   obsVars>>

\* React flushes the passive effects of the last commit: the subscription
\* effect's cleanup and body run with the committed values
flushPassiveEffects ==
    /\ watch = "lag"
    /\ UNCHANGED <<provVars, propVars, state, refVars, interval, frame, now, ownVars,
                   everOwner, obsVars>>
    /\ Resubscribe
    /\ out' = <<>>
    /\ step' = Quiet
    /\ UNCHANGED watch

\* a millisecond passes while the interval waits, measured from the present:
\* the clock reading stays and the time left until the callback shrinks
elapse ==
    /\ interval.on
    /\ interval.nextFire > now
    /\ interval' = [interval EXCEPT !.nextFire = @ - 1]
    /\ UNCHANGED <<provVars, propVars, state, refVars, handler, frame, now, ownVars,
                   everOwner, obsVars>>
    /\ out' = <<>>
    /\ step' = Quiet
    /\ UNCHANGED watch

\* variant: result is currentState itself, and the loop writes into it
ResultObject_current == "currentState"

\* const result = { ...currentState }: the loop writes into a new object
ResultObject == "new"

\* interpolateState(currentState, targetState, t) applied on its own, to the
\* states held in lastStateRef and targetStateRef, with t = tn / td; an
\* argument that the loop writes into holds the result afterwards
Interpolate(tn, td) ==
    /\ LET result == interpolateState(lastStateRef, targetStateRef, tn, td)
       IN  /\ state' = result
           /\ lastStateRef' = IF ResultObject = "currentState" THEN result
                               ELSE lastStateRef
           /\ targetStateRef' = IF ResultObject = "targetState" THEN result
                                 ELSE targetStateRef
    /\ step' = [Quiet EXCEPT !.act = "interpolateState", !.t = <<tn, td>>]
    /\ out' = <<>>
    /\ UNCHANGED <<provVars, propVars, lastUpdateTsRef, pendingUpdateRef, effVars,
                   now, watch, ownVars, everOwner, obsVars>>

\* tasks of the provider and the socket client
ProviderNext ==
    \/ \E same \in BOOLEAN : Connect(same)
    \/ handleConnect
    \/ handleDisconnect
    \/ Disconnect
    \/ \E r \in Rooms : joinRoomAck(r)
    \/ joinRoomDone
    \/ \E r \in Rooms : createRoom(r)
    \/ leaveRoom
    \/ \E data \in PresenceEvents : handlePresence(data)

\* The complete system: every option of the binding may change.
Next ==
    \/ ProviderNext
    \/ \E u \in Updaters : setNetworkState(u)
    \/ \E e \in EntityIds, s \in StateInputs : deliver(e, s)
    \/ broadcastTick
    \/ animate
    \/ \E e \in EntityIds, o \in BOOLEAN, r \in Rates, i \in BOOLEAN : rerender(e, o, r, i)
    \/ unmount
    \/ advance

Spec == Init /\ [][Next]_vars

\* The broadcasting side: interpolation stays disabled, so no animation
\* frame is ever requested; role, entityId and broadcastRate may change.
NextOwner ==
    \/ ProviderNext
    \/ \E u \in Updaters : setNetworkState(u)
    \/ \E e \in EntityIds, s \in StateInputs : deliver(e, s)
    \/ broadcastTick
    \/ \E e \in EntityIds, o \in BOOLEAN, r \in Rates : rerender(e, o, r, FALSE)
    \/ unmount
    \/ advance

InitWrites ==
    /\ Init
    /\ ~enableInterpolation
    /\ watch = "writes"

SpecWrites == InitWrites /\ [][NextOwner]_vars

InitRate ==
    /\ Init
    /\ ~enableInterpolation
    /\ watch = "rate"

SpecRate == InitRate /\ [][NextOwner]_vars

InitOffline ==
    /\ Init
    /\ ~enableInterpolation
    /\ watch = "offline"

SpecOffline == InitOffline /\ [][NextOwner]_vars

\* The receiving side: the binding stays an Observer, so no interval is
\* ever started; entityId, broadcastRate and enableInterpolation may change.
\* An Observer reads from the provider only whether a room is set, so the
\* client stays connected here and the room is left and entered again.
InitObserver ==
    /\ Init
    /\ ~isOwner
    /\ watch = "updates"

NextObserver ==
    \/ \E same \in BOOLEAN : Connect(same)
    \/ handleConnect
    \/ createRoom("r1")
    \/ leaveRoom
    \/ \E u \in Updaters : setNetworkState(u)
    \/ \E e \in EntityIds, s \in StateInputs : deliver(e, s)
    \/ animate
    \/ \E e \in EntityIds, r \in Rates, i \in BOOLEAN : rerender(e, FALSE, r, i)
    \/ unmount
    \/ advance

SpecObserver == InitObserver /\ [][NextObserver]_vars

\* The life of one binding: the role and the interpolation option change
\* while entityId and broadcastRate stay; the connection is lost and made
\* again and the room is left and entered again.
InitLife ==
    /\ Init
    /\ entityId = "A"
    /\ broadcastRate = 2
    /\ watch = "life"

NextLife ==
    \/ \E same \in BOOLEAN : Connect(same)
    \/ handleConnect
    \/ handleDisconnect
    \/ createRoom("r1")
    \/ leaveRoom
    \/ \E u \in Updaters : setNetworkState(u)
    \/ \E e \in EntityIds, s \in StateInputs : deliver(e, s)
    \/ broadcastTick
    \/ animate
    \/ \E o \in BOOLEAN, i \in BOOLEAN : rerender(entityId, o, broadcastRate, i)
    \/ unmount
    \/ advance

SpecLife == InitLife /\ [][NextLife]_vars

\* Malformed envelopes: an Observer of entity A in a room receives
\* well-formed updates and envelopes of every malformed shape.
InitShape ==
    /\ Init
    /\ ~isOwner
    /\ entityId = "A"
    /\ watch = "shape"

NextShape ==
    \/ Connect(FALSE)
    \/ handleConnect
    \/ createRoom("r1")
    \/ \E e \in EntityIds, s \in StateInputs : deliver(e, s)
    \/ \E shape \in Shapes, e \in EntityIds, s \in StateInputs : deliverMalformed(shape, e, s)
    \/ animate
    \/ \E i \in BOOLEAN : rerender(entityId, FALSE, broadcastRate, i)
    \/ advance

SpecShape == InitShape /\ [][NextShape]_vars

\* Mid-flight sampling: an Observer of entity A with interpolation enabled,
\* whose broadcastRate may be set to MidRate.
InitMid ==
    /\ Init
    /\ ~isOwner
    /\ enableInterpolation
    /\ entityId = "A"
    /\ watch = "updates"

NextMid ==
    \/ Connect(FALSE)
    \/ handleConnect
    \/ createRoom("r1")
    \/ \E u \in Updaters : setNetworkState(u)
    \/ \E e \in EntityIds, s \in StateInputs : deliver(e, s)
    \/ animate
    \/ rerender(entityId, FALSE, MidRate, TRUE)
    \/ advance

SpecMid == InitMid /\ [][NextMid]_vars

\* Local writes: the role stays what it was at the creation of the binding
\* while entityId and broadcastRate change, the connection is lost and made
\* again and the room is left and entered again.
InitMutator ==
    /\ Init
    /\ ~enableInterpolation
    /\ watch = "mutator"

NextMutator ==
    \/ Connect(TRUE)
    \/ handleConnect
    \/ handleDisconnect
    \/ createRoom("r1")
    \/ leaveRoom
    \/ \E u \in Updaters : setNetworkState(u)
    \/ \E e \in EntityIds, s \in StateInputs : deliver(e, s)
    \/ broadcastTick
    \/ \E e \in EntityIds, r \in Rates : rerender(e, isOwner, r, FALSE)
    \/ advance

SpecMutator == InitMutator /\ [][NextMutator]_vars

\* Receipt of updates: an Observer whose interpolation option stays what
\* it was at the creation of the binding; entityId and broadcastRate change,
\* the connection is lost and made again, the room is left and entered again.
InitReceipt ==
    /\ Init
    /\ ~isOwner
    /\ watch = "receipt"

NextReceipt ==
    \/ Connect(TRUE)
    \/ handleConnect
    \/ handleDisconnect
    \/ createRoom("r1")
    \/ leaveRoom
    \/ \E u \in Updaters : setNetworkState(u)
    \/ \E e \in EntityIds, s \in StateInputs : deliver(e, s)
    \/ animate
    \/ \E e \in EntityIds, r \in Rates : rerender(e, FALSE, r, enableInterpolation)
    \/ advance

SpecReceipt == InitReceipt /\ [][NextReceipt]_vars

\* The render loop: an Observer of entity A with interpolation enabled.
\* requestAnimationFrame runs the requested callback at the next display
\* refresh and time passes, so both are weakly fair.
InitRender ==
    /\ Init
    /\ ~isOwner
    /\ enableInterpolation
    /\ entityId = "A"
    /\ watch = "render"

NextRender ==
    \/ Connect(TRUE)
    \/ handleConnect
    \/ createRoom("r1")
    \/ \E u \in Updaters : setNetworkState(u)
    \/ \E e \in EntityIds, s \in StateInputs : deliver(e, s)
    \/ animate
    \/ advance

SpecRender ==
    /\ InitRender
    /\ [][NextRender]_vars
    /\ WF_vars(animate)
    /\ WF_vars(advance)

\* The interpolator alone: currentState and targetState are drawn from
\* InterpStates and interpolateState is applied for every t = tn / TSteps
\* in [0, 1].
InitInterp ==
    /\ sock = "none"
    /\ isConnected = FALSE
    /\ currentRoom = NoRoom
    /\ join = NoJoin
    /\ listeners = [ev \in Events |-> {}]
    /\ wire = NoWire
    /\ mounted = TRUE
    /\ entityId = "A"
    /\ isOwner = FALSE
    /\ broadcastRate = 1
    /\ enableInterpolation = TRUE
    /\ lastStateRef \in InterpStates
    /\ targetStateRef \in InterpStates
    /\ state = lastStateRef
    /\ lastUpdateTsRef = 0
    /\ pendingUpdateRef = Null
    /\ handler = NoHandler
    /\ interval = NoTimer
    /\ frame = NoFrame
    /\ now = 0
    /\ out = <<>>
    /\ step = Quiet
    /\ watch = "interp"
    /\ writes = 0
    /\ lastResolved = Null
    /\ stagedOffline = Null
    /\ lastEmitTs = -1
    /\ stagedFor = "none"
    /\ inflight = Null
    /\ restarted = FALSE
    /\ everOwner = FALSE
    /\ updates = 0
    /\ inState = Null
    /\ inTs = -1
    /\ settled = FALSE
    /\ wroteSince = FALSE
    /\ arrived = FALSE

NextInterp == \E tn \in 0..TSteps : Interpolate(tn, TSteps)

SpecInterp == InitInterp /\ [][NextInterp]_vars

\* Carry-over: an Owner or Observer without interpolation in a room whose
\* component re-renders with another entityId or role between writes and
\* ticks.
InitCarry ==
    /\ Init
    /\ ~enableInterpolation
    /\ watch = "carry"

NextCarry ==
    \/ Connect(TRUE)
    \/ handleConnect
    \/ createRoom("r1")
    \/ \E u \in Updaters : setNetworkState(u)
    \/ \E e \in EntityIds, s \in StateInputs : deliver(e, s)
    \/ broadcastTick
    \/ \E e \in EntityIds, o \in BOOLEAN : rerender(e, o, broadcastRate, FALSE)
    \/ advance

SpecCarry == InitCarry /\ [][NextCarry]_vars

\* Joining: an Observer whose provider joins a room (the room:join ack,
\* then the room list fetched over REST, then setCurrentRoom), leaves it
\* and joins again, while updates arrive and the component unmounts.
InitJoin ==
    /\ Init
    /\ ~isOwner
    /\ entityId = "A"
    /\ watch = "join"

NextJoin ==
    \/ Connect(TRUE)
    \/ handleConnect
    \/ joinRoomAck("r1")
    \/ joinRoomDone
    \/ leaveRoom
    \/ \E u \in Updaters : setNetworkState(u)
    \/ \E e \in EntityIds, s \in StateInputs : deliver(e, s)
    \/ animate
    \/ unmount
    \/ advance

SpecJoin == InitJoin /\ [][NextJoin]_vars

\* Starvation: an Owner in a room whose membership keeps changing; the
\* room:presence events replace currentRoom, which restarts the interval.
\* Time is measured from the present, so a run has no last millisecond.
\* Fairness: time passes while the interval waits, and a due callback runs.
InitStarve ==
    /\ Init
    /\ isOwner
    /\ ~enableInterpolation
    /\ entityId = "A"
    /\ watch = "starve"

NextStarve ==
    \/ Connect(TRUE)
    \/ handleConnect
    \/ \E data \in PresenceEvents : handlePresence(data)
    \/ createRoom("r1")
    \/ \E u \in Updaters : setNetworkState(u)
    \/ broadcastTick
    \/ elapse

SpecStarve == InitStarve /\ [][NextStarve]_vars
                 /\ WF_vars(elapse) /\ WF_vars(broadcastTick)

\* Passive effects: an Observer with interpolation whose subscription
\* effect runs in a task after the commit that changed the state, so that
\* an update can arrive between the two.
InitLag ==
    /\ Init
    /\ ~isOwner
    /\ enableInterpolation
    /\ entityId = "A"
    /\ watch = "lag"

NextLag ==
    \/ Connect(TRUE)
    \/ handleConnect
    \/ createRoom("r1")
    \/ \E u \in Updaters : setNetworkState(u)
    \/ \E e \in EntityIds, s \in StateInputs : deliver(e, s)
    \/ animate
    \/ flushPassiveEffects
    \/ advance

SpecLag == InitLag /\ [][NextLag]_vars

\* Render ticks: an Observer with interpolation in a room; updates arrive,
\* the caller writes locally, the component re-renders with another
\* broadcastRate, and each render tick records the fraction t it used.
InitTick ==
    /\ Init
    /\ ~isOwner
    /\ enableInterpolation
    /\ entityId = "A"
    /\ watch = "tick"

NextTick ==
    \/ Connect(TRUE)
    \/ handleConnect
    \/ createRoom("r1")
    \/ \E u \in Updaters : setNetworkState(u)
    \/ \E e \in EntityIds, s \in StateInputs : deliver(e, s)
    \/ animate
    \/ \E r \in Rates : rerender(entityId, FALSE, r, TRUE)
    \/ advance

SpecTick == InitTick /\ [][NextTick]_vars

\* Failed sends: an Owner in a room whose emissions are acked by the server,
\* positively or negatively, while the connection is lost and made again.
InitRetry ==
    /\ Init
    /\ isOwner
    /\ ~enableInterpolation
    /\ entityId = "A"
    /\ watch = "retry"

NextRetry ==
    \/ Connect(TRUE)
    \/ handleConnect
    \/ handleDisconnect
    \/ createRoom("r1")
    \/ \E u \in Updaters : setNetworkState(u)
    \/ broadcastTick
    \/ \E ok \in BOOLEAN : ack(ok)
    \/ advance

SpecRetry == InitRetry /\ [][NextRetry]_vars

\* The subscription system of SocketClient on its own: callbacks of two
\* bindings are registered and removed for two events, and events are
\* dispatched to the registered callbacks.
InitListen ==
    /\ Init
    /\ ~isOwner
    /\ ~enableInterpolation
    /\ entityId = "A"
    /\ broadcastRate = 1
    /\ watch = "listen"

NextListen ==
    \/ \E ev \in Events, cb \in Callbacks : on(ev, cb)
    \/ \E ev \in Events, cb \in Callbacks : off(ev, cb)
    \/ \E ev \in Events : notifyListeners(ev)

SpecListen == InitListen /\ [][NextListen]_vars

\* The socket side of SocketClient: sockets are created, connect, lose the
\* connection and are dropped while callbacks are registered and removed
\* and events arrive on the current socket.
InitWire ==
    /\ Init
    /\ ~isOwner
    /\ ~enableInterpolation
    /\ entityId = "A"
    /\ broadcastRate = 1
    /\ watch = "wire"

NextWire ==
    \/ \E same \in BOOLEAN : Connect(same)
    \/ handleConnect
    \/ handleDisconnect
    \/ Disconnect
    \/ \E ev \in Events, cb \in Callbacks : on(ev, cb)
    \/ \E ev \in Events, cb \in Callbacks : off(ev, cb)
    \/ \E ev \in Events, viaEnvelope \in BOOLEAN : socketEvent(ev, viaEnvelope)

SpecWire == InitWire /\ [][NextWire]_vars

\* The room and messaging calls of SocketClient, made in every state of
\* the socket and answered in every way.
InitCalls ==
    /\ Init
    /\ ~isOwner
    /\ ~enableInterpolation
    /\ entityId = "A"
    /\ broadcastRate = 1
    /\ watch = "call"

NextCalls ==
    \/ \E same \in BOOLEAN : Connect(same)
    \/ handleConnect
    \/ handleDisconnect
    \/ Disconnect
    \/ \E op \in Ops, r \in Rooms, resp \in Responses : call(op, r, resp)

SpecCalls == InitCalls /\ [][NextCalls]_vars

\* The provider's room and its member list: rooms are joined, created
\* and left while 'room:presence' events arrive.
InitPresence ==
    /\ Init
    /\ ~isOwner
    /\ ~enableInterpolation
    /\ entityId = "A"
    /\ broadcastRate = 1
    /\ watch = "presence"

NextPresence ==
    \/ Connect(TRUE)
    \/ handleConnect
    \/ handleDisconnect
    \/ \E r \in Rooms : joinRoomAck(r)
    \/ joinRoomDone
    \/ \E r \in Rooms : createRoom(r)
    \/ leaveRoom
    \/ \E data \in PresenceEvents : handlePresence(data)

SpecPresence == InitPresence /\ [][NextPresence]_vars

\* ------------------------------------------------------------- properties
\* the message a broadcast tick of the binding hands to the room
Update(s) == [roomId |-> currentRoom.roomId, event |-> "entity:update",
              entityId |-> entityId, state |-> s]

\* C1 (owner buffer coalescing): a broadcast tick that finds one or more
\* Owner writes made since the tick before emits exactly one entity:update
\* to the room, carrying the value resolved by the last of them.
C1_Coalescing ==
    (step.act = "broadcastTick" /\ step.writes >= 1)
        => out = <<Update(lastResolved[1])>>

\* several writes were made between two ticks and the later tick sent once
C1_Witness ==
    /\ step.act = "broadcastTick"
    /\ step.writes = 2
    /\ Len(out) = 1
    /\ isConnected

\* C2 (owner silence): a broadcast tick that finds no write since the tick
\* before emits nothing; the buffer is empty after every tick and whenever
\* no write followed the last tick.
C2_Silence ==
    /\ (step.act = "broadcastTick" /\ step.writes = 0) => out = <<>>
    /\ step.act = "broadcastTick" => pendingUpdateRef = Null
    /\ writes = 0 => pendingUpdateRef = Null

\* a tick ran after an earlier tick had sent the only write, and was silent
C2_Witness ==
    /\ step.act = "broadcastTick"
    /\ step.writes = 0
    /\ lastResolved # Null
    /\ out = <<>>

\* C3 (rate bound): when a broadcast tick emits and the binding has emitted
\* before, at least broadcastRate ms (the period in force at the later
\* emission) lie between the two emissions, also when the interval was
\* cleared and started again in between.
C3_RateBound ==
    (step.act = "broadcastTick" /\ step.gap >= 0) => step.gap >= broadcastRate

\* two emissions with a restart of the interval between them
C3_Witness ==
    /\ step.act = "broadcastTick"
    /\ step.gap >= 0
    /\ step.restarted

C5_Convergence ==
    (updates = 1 /\ inState # Null /\ settled) => state = inState[1]

\* the render tick that converged, coming from a different visible state
C5_Witness ==
    /\ updates = 1 /\ inState # Null /\ settled
    /\ step.act = "animate"
    /\ lastStateRef # state
    /\ 2 * (now - inTs) = 3 * broadcastRate

\* C6 (entity isolation): the handler of a binding, run on an update whose
\* entityId is not the binding's, changes neither the visible state nor
\* the target state, the last visual state or the arrival timestamp.
C6_Isolation ==
    [][(step'.act = "onEntityUpdate" /\ step'.inId # entityId)
          => UNCHANGED <<state, targetStateRef, lastStateRef, lastUpdateTsRef>>]_vars

\* an Observer that is subscribed handled an update of another entity
C6_Witness ==
    /\ step.act = "onEntityUpdate"
    /\ step.inId # entityId
    /\ ~isOwner /\ handler.on
    /\ updates >= 1

\* C7 (role asymmetry): the handler of an Owner, run on any update, leaves
\* the visible state and the pending buffer alone, and while the binding
\* is an Owner its visible state changes only in setNetworkState.
C7_RoleAsymmetry ==
    [][/\ (step'.act = "onEntityUpdate" /\ isOwner)
             => UNCHANGED <<state, pendingUpdateRef>>
       /\ (isOwner /\ isOwner' /\ state' # state)
             => step'.act = "setNetworkState"]_vars

\* an Owner's handler ran on an update for the Owner's own entity
C7_Witness ==
    /\ isOwner
    /\ step.act = "onEntityUpdate"
    /\ step.inId = entityId
    /\ state # InitialState

\* C8 (observers never broadcast): an Observer has no interval and emits
\* nothing, and a binding that never was an Owner has an empty buffer.
C8_ObserverSilent ==
    /\ ~isOwner => (out = <<>> /\ ~interval.on)
    /\ ~everOwner => pendingUpdateRef = Null

\* a binding that never was an Owner wrote locally, connected and in a room
C8_Witness ==
    /\ ~everOwner
    /\ step.act = "setNetworkState"
    /\ isConnected /\ currentRoom # NoRoom
    /\ now >= 2

C11_MalformedFiltered ==
    [][step'.shape # "ok"
          => /\ ~step'.threw
             /\ UNCHANGED <<state, targetStateRef, lastStateRef, lastUpdateTsRef>>]_vars

\* keys whose values are numbers in both states
NumericInBoth(currentState, targetState) ==
    {key \in (DOMAIN currentState) \intersect (DOMAIN targetState) :
        IsNumber(currentState[key]) /\ IsNumber(targetState[key])}

\* C12 (interpolator linearity): for every field that is a number in both
\* currentState and targetState the result of interpolateState is
\* current + (target - current) * t for every t in [0, 1]; it is the
\* current value at t = 0 and the target value at t = 1.
C12_Linearity ==
    step.act = "interpolateState" =>
        \A key \in NumericInBoth(lastStateRef, targetStateRef) :
            LET c == lastStateRef[key]
                g == targetStateRef[key]
                r == state[key]
                tn == step.t[1]
                td == step.t[2]
            IN  /\ IsNumber(r)
                /\ r[3] > 0
                /\ r[2] * (c[3] * g[3] * td)
                      = r[3] * (c[2] * g[3] * td + (g[2] * c[3] - c[2] * g[3]) * tn)
                /\ tn = 0 => r = c
                /\ tn = td => r = g

\* a number was interpolated strictly inside the interval, between two
\* different values
C12_Witness ==
    /\ step.act = "interpolateState"
    /\ step.t[1] > 0 /\ step.t[1] < step.t[2]
    /\ \E key \in NumericInBoth(lastStateRef, targetStateRef) :
          /\ lastStateRef[key] # targetStateRef[key]
          /\ state[key] # lastStateRef[key]
          /\ state[key] # targetStateRef[key]

\* C13 (non-numeric snap): every field of targetState that is no number in
\* targetState, or no number in currentState, or missing from currentState,
\* has exactly targetState's value in the result, for every t.
C13_Snap ==
    step.act = "interpolateState" =>
        \A key \in DOMAIN targetStateRef :
            key \notin NumericInBoth(lastStateRef, targetStateRef)
                => (key \in DOMAIN state /\ state[key] = targetStateRef[key])

\* a field that is a number in targetState and a string in currentState was
\* snapped at an inner t
C13_Witness ==
    /\ step.act = "interpolateState"
    /\ step.t[1] > 0 /\ step.t[1] < step.t[2]
    /\ "x" \in DOMAIN lastStateRef /\ "x" \in DOMAIN targetStateRef
    /\ ~IsNumber(lastStateRef["x"]) /\ IsNumber(targetStateRef["x"])
    /\ "tag" \notin DOMAIN lastStateRef /\ "tag" \in DOMAIN targetStateRef
    /\ state = targetStateRef

\* C14 as stated (result has exactly the fields of targetState): the keys
\* of the result of interpolateState are the keys of targetState.
C14_TargetFieldsOnly ==
    step.act = "interpolateState" => DOMAIN state = DOMAIN targetStateRef

\* C14 as amended: the keys of the result are the keys of currentState
\* together with the keys of targetState, and a field of currentState that
\* is absent from targetState keeps currentState's value.
C14_Fields ==
    step.act = "interpolateState" =>
        /\ DOMAIN state = (DOMAIN lastStateRef) \union (DOMAIN targetStateRef)
        /\ \A key \in (DOMAIN lastStateRef) \ (DOMAIN targetStateRef) :
              state[key] = lastStateRef[key]

\* currentState has a field that targetState lacks, and the result has it
C14_Witness ==
    /\ step.act = "interpolateState"
    /\ "tag" \in DOMAIN lastStateRef
    /\ DOMAIN targetStateRef = {"x"}
    /\ "tag" \in DOMAIN state

\* a < b for two numbers of the model
Less(a, b) == a[2] * b[3] < b[2] * a[3]

StrictlyBetween(r, a, b) ==
    \/ Less(a, r) /\ Less(r, b)
    \/ Less(b, r) /\ Less(r, a)

\* C15 (observer mid-flight value): a render tick that runs 0.75 *
\* broadcastRate after the last matching update was taken as target
\* (t = 0.5) sets every field that is a number in both the last visual state
\* and the target, with different values, strictly between the two values.
C15_MidFlight ==
    (step.act = "animate" /\ inState # Null /\ 4 * (now - inTs) = 3 * broadcastRate)
        => \A key \in NumericInBoth(lastStateRef, targetStateRef) :
              lastStateRef[key] # targetStateRef[key]
                  => /\ key \in DOMAIN state
                     /\ IsNumber(state[key])
                     /\ StrictlyBetween(state[key], lastStateRef[key], targetStateRef[key])

\* the tick at t = 0.5 after the only update, between different x values
C15_Witness ==
    /\ step.act = "animate"
    /\ updates = 1 /\ inState # Null
    /\ 4 * (now - inTs) = 3 * broadcastRate
    /\ lastStateRef["x"] # targetStateRef["x"]
    /\ 2 * state["x"][2] = state["x"][3] * (lastStateRef["x"][2] + targetStateRef["x"][2])

\* C16 (state write): setNetworkState(v), or setNetworkState(f) with f
\* applied to the visible state, makes the resolved value the visible state
\* in its own step for both roles; for an Owner the same step stores that
\* value in the pending buffer in place of any unsent one, and an Owner's
\* visible state is always the value its last setNetworkState resolved.
C16_StateWrite ==
    [][/\ step'.act = "setNetworkState" =>
            LET a == step'.arg[1]
                expected == IF a.fn THEN Merge(state, a.v) ELSE a.v
            IN  /\ state' = expected
                /\ pendingUpdateRef' = IF isOwner THEN Some(expected)
                                       ELSE pendingUpdateRef
       /\ (isOwner' /\ lastResolved' # Null) => state' = lastResolved'[1]]_vars

\* an Owner passed a function while an earlier write was still unsent, and
\* the function kept a field of the previous state
C16_Witness ==
    /\ step.act = "setNetworkState"
    /\ isOwner
    /\ writes = 2
    /\ step.arg[1].fn
    /\ state # step.arg[1].v
    /\ pendingUpdateRef = Some(state)
    /\ isConnected /\ currentRoom # NoRoom

\* C17 (inbound update with interpolation): the handler of an Observer with
\* interpolation enabled, run on a matching update, leaves the visible state
\* as it is and in the one step sets the target to the incoming state, the
\* last visual state to the state its closure holds and the timestamp to the
\* current time; the visible state changes only in render ticks and local writes.
C17_TargetOnly ==
    [][/\ (step'.act = "onEntityUpdate" /\ step'.inId = entityId
             /\ ~isOwner /\ enableInterpolation)
          => /\ state' = state
             /\ inState' # Null
             /\ targetStateRef' = inState'[1]
             /\ lastStateRef' = handler.state
             /\ lastUpdateTsRef' = now
       /\ (~isOwner /\ enableInterpolation /\ state' # state)
          => step'.act \in {"animate", "setNetworkState"}]_vars

\* a matching update arrived while the visible state was neither the
\* initial state nor the previous target nor the incoming state
C17_Witness ==
    /\ step.act = "onEntityUpdate" /\ step.inId = entityId
    /\ ~isOwner /\ enableInterpolation
    /\ updates = 2
    /\ now >= 1 /\ lastUpdateTsRef = now
    /\ state # InitialState /\ state # targetStateRef
    /\ lastStateRef = state

\* C18 (inbound update without interpolation): for an Observer with
\* interpolation disabled the handler, run on a matching update, makes the
\* incoming state the visible state in its own step, no animation frame is
\* requested and no render tick runs, and the visible state is the state of
\* the last matching update received unless a local write followed it.
C18_Immediate ==
    (~isOwner /\ ~enableInterpolation)
        => /\ ~frame.on
           /\ step.act # "animate"
           /\ (step.act = "onEntityUpdate" /\ step.inId = entityId)
                 => (inState # Null /\ state = inState[1])
           /\ (inState # Null /\ ~wroteSince) => state = inState[1]

\* the second matching update was applied by the handler, after time passed
C18_Witness ==
    /\ ~isOwner /\ ~enableInterpolation
    /\ step.act = "onEntityUpdate" /\ step.inId = entityId
    /\ updates = 2
    /\ now >= 1
    /\ state = inState[1]
    /\ handler.state = state

\* C20 (receipt order): every matching update an Observer's handler
\* receives is applied, in the order received: the target state (the
\* visible state when interpolation is disabled, unless a local write
\* followed) is the state of the matching update received last.
C20_ReceiptOrder ==
    ~isOwner
        => /\ (step.act = "onEntityUpdate" /\ step.inId = entityId)
                 => (inState # Null /\ inTs = now)
           /\ inState # Null
                 => IF enableInterpolation
                    THEN targetStateRef = inState[1]
                    ELSE ~wroteSince => state = inState[1]

\* a second matching update replaced a different target that the visible
\* state had reached
C20_Witness ==
    /\ ~isOwner /\ enableInterpolation
    /\ step.act = "onEntityUpdate" /\ step.inId = entityId
    /\ updates = 2
    /\ lastStateRef \in StateInputs
    /\ targetStateRef # lastStateRef
    /\ targetStateRef = inState[1]
    /\ lastUpdateTsRef >= 2

\* the update taken last has state s, came at time ts after a render tick had
\* reached the target before it, and 1.5 * broadcastRate of time is left
TookAfterArrival(s, ts) ==
    /\ arrived
    /\ inState = Some(s)
    /\ inTs = ts
    /\ 2 * (MaxTime - ts) >= 3 * broadcastRate

\* the visible state is s, or another update was taken
ReachedOrReplaced(s, ts) ==
    \/ state = s
    \/ inState # Some(s)
    \/ inTs # ts

\* C19 (the render tick never stops): when a matching update with state S2
\* is taken as target after a render tick had brought the visible state to
\* the target before it, then, render ticks being fair, the visible state
\* eventually is S2 unless a further update is taken first.  (Updates that
\* arrive less than 1.5 * broadcastRate before the end of the modelled time
\* are left out.)
C19_RenderResumes ==
    \A s \in StateInputs : \A ts \in 0..MaxTime :
        TookAfterArrival(s, ts) ~> ReachedOrReplaced(s, ts)

\* a render tick brought the visible state from the first target to the
\* second one
C19_Witness ==
    /\ arrived
    /\ step.act = "animate"
    /\ inState # Null /\ state = inState[1]
    /\ lastStateRef \in StateInputs
    /\ lastStateRef # state
    /\ updates = 2

\* C21 (nothing carries over): an emission is tagged with the entityId the
\* binding had when the emitted value was staged, and a task that changes
\* the entityId or the role of the binding leaves the pending buffer empty
\* and the visible state, the target and the last visual state at the
\* initial state.
C21_NoCarryOver ==
    [][ /\ (out' # <<>> => out'[1].entityId = stagedFor)
        /\ (entityId' # entityId \/ isOwner' # isOwner)
              => /\ pendingUpdateRef' = Null
                 /\ state' = InitialState
                 /\ targetStateRef' = InitialState
                 /\ lastStateRef' = InitialState ]_vars

\* C22 (subscribed for the whole lifetime): an update for the binding's
\* entity that the socket delivers while the component is mounted and the
\* client is a member of a room (the room:join ack has arrived, or the room
\* is recorded in currentRoom) is handed to the binding's handler.
C22_AlwaysSubscribed ==
    (mounted /\ step.inId = entityId /\ (join # NoJoin \/ currentRoom # NoRoom))
        => step.act = "onEntityUpdate"

\* a value waits in the pending buffer of a connected Owner in a room
StagedInRoom ==
    isOwner /\ isConnected /\ currentRoom # NoRoom /\ pendingUpdateRef # Null

\* a tick emitted the pending value, or a later write replaced it, or the
\* Owner is no longer connected and in a room
SentOrOverwritten ==
    \/ step.act = "broadcastTick" /\ out # <<>>
    \/ step.act = "setNetworkState"
    \/ ~isConnected
    \/ currentRoom = NoRoom

\* C23 (eventual send): while an Owner stays connected and in a room, a
\* value staged in the pending buffer is eventually emitted by a broadcast
\* tick or overwritten by a later write, also when presence events keep
\* restarting the interval.
C23_EventualSend == StagedInRoom ~> SentOrOverwritten

\* C24 (last visual state is current): the last visual state that the
\* handler of an Observer with interpolation records for a matching update
\* is the visible state of the binding at the moment the update arrives.
C24_LastVisualCurrent ==
    [][(step'.act = "onEntityUpdate" /\ step'.inId = entityId
           /\ ~isOwner /\ enableInterpolation)
          => lastStateRef' = state]_vars

\* r lies in the closed interval between a and b
ClosedBetween(r, a, b) ==
    \/ ~Less(r, a) /\ ~Less(b, r)
    \/ ~Less(r, b) /\ ~Less(a, r)

C26_NoRetry ==
    [][/\ (step'.act = "broadcastTick" /\ pendingUpdateRef # Null)
             => pendingUpdateRef' = Null
       /\ step'.act = "ack" => UNCHANGED <<state, pendingUpdateRef>>
       /\ out' # <<>> => (step'.writes >= 1 /\ out'[1].state = lastResolved[1])]_vars

\* the server refused an emission: the buffer stays empty and the visible
\* state is still the value last written
C26_Witness ==
    /\ step.act = "ack" /\ step.ack = "nack"
    /\ isConnected /\ currentRoom # NoRoom
    /\ interval.on
    /\ pendingUpdateRef = Null
    /\ lastResolved # Null /\ state = lastResolved[1]

C28_ExactUnsubscribe ==
    [][/\ step'.act = "off" => step'.cb \notin listeners'[step'.ev]
       /\ step'.act = "on" => step'.cb \in listeners'[step'.ev]
       /\ step'.act \in {"on", "off"}
             => \A ev \in Events : \A cb \in Callbacks :
                   (ev # step'.ev \/ cb # step'.cb)
                       => (cb \in listeners'[ev] <=> cb \in listeners[ev])
       /\ step'.act = "notifyListeners"
             => step'.notified = listeners[step'.ev]]_vars

\* an update was dispatched after one binding's callback had been removed
\* while the other binding's callback stayed registered
C28_Witness ==
    /\ step.act = "notifyListeners" /\ step.ev = "entity:update"
    /\ step.notified = {<<"b2", 0>>}
    /\ <<"b1", 0>> \in listeners["room:presence"]

\* r is what interpolating from c to g at t = tn / td gives: the fields of
\* both, numbers of both combined linearly, every other field of g as in g
IsInterpolationOf(r, c, g, tn, td) ==
    /\ DOMAIN r = (DOMAIN c) \union (DOMAIN g)
    /\ \A key \in DOMAIN r :
          IF key \in NumericInBoth(c, g)
          THEN /\ IsNumber(r[key])
               /\ r[key][3] > 0
               /\ r[key][2] * (c[key][3] * g[key][3] * td)
                     = r[key][3] * (c[key][2] * g[key][3] * td
                                      + (g[key][2] * c[key][3] - c[key][2] * g[key][3]) * tn)
          ELSE IF key \in DOMAIN g THEN r[key] = g[key]
          ELSE r[key] = c[key]

\* C29 (a local write of an Observer does not last): with interpolation
\* enabled a setNetworkState leaves the last visual state, the target and
\* the timestamp as they are, and every render tick sets the visible state
\* to the interpolation of the last visual state and the target at its t,
\* or to the target when t >= 1, whatever was written.
C29_WriteNotKept ==
    [][/\ step'.act = "setNetworkState"
             => UNCHANGED <<lastStateRef, targetStateRef, lastUpdateTsRef>>
       /\ (step'.act = "animate" /\ ~step'.threw)
             => IF step'.t[1] < step'.t[2]
                THEN IsInterpolationOf(state', lastStateRef, targetStateRef,
                                       step'.t[1], step'.t[2])
                ELSE state' = targetStateRef]_vars

\* a render tick at an inner t after a local write that followed the last
\* update: the visible state is neither the written value nor an end
C29_Witness ==
    /\ step.act = "animate"
    /\ wroteSince
    /\ updates >= 1
    /\ step.t[1] > 0 /\ step.t[1] < step.t[2]
    /\ lastStateRef["x"] # targetStateRef["x"]
    /\ state \notin StateInputs
    /\ state # lastStateRef /\ state # targetStateRef

\* C30 (AtTarget is stable): once a render tick has run with
\* t >= 1, and until a matching update or a local write, the visible state
\* is the target after every render tick; before the first matching update
\* every render tick leaves the visible state at the initial state.
C30_AtTargetStable ==
    /\ (settled /\ step.act = "animate") => state = targetStateRef
    /\ (updates = 0 /\ step.act = "animate") => state = InitialState

\* C31 (exactly-once dispatch): an event that arrives on the current
\* socket, under its own name or in a 'room:emit' envelope, while callbacks
\* are registered for it, makes notifyListeners run exactly once for it, so
\* each registered callback is called exactly once.
C31_ExactlyOnce ==
    (step.act = "socketEvent" /\ listeners[step.ev] # {})
        => (step.calls = 1 /\ step.notified = listeners[step.ev])

\* C32 (single live socket): every socket that connect() replaced was
\* disconnected first, so no socket other than the current one is left
\* that can still deliver events to the listeners.
C32_SingleLiveSocket == wire.leaked = 0

\* C33 (settlement of room and messaging calls): without a socket each of
\* createRoom, joinRoom, leaveRoom and emitToRoom is rejected with
\* 'No socket connection' and nothing is sent; with a socket, once the
\* server has acked, joinRoom, leaveRoom and emitToRoom are resolved exactly
\* when the ack has ok set and rejected otherwise.
C33_Settlement ==
    step.act = "call" =>
        /\ sock = "none" =>
              step.result = [sent |-> Null, outcome |-> "rejected",
                             value |-> "No socket connection"]
        /\ (sock # "none" /\ step.op # "createRoom" /\ step.resp.kind # "noAck") =>
              /\ step.result.sent # Null
              /\ step.result.outcome =
                    IF step.resp.kind = "object" /\ step.resp.ok = "true"
                    THEN "resolved" ELSE "rejected"

C33_Witness ==
    /\ step.act = "call"
    /\ sock # "none"
    /\ step.op = "emitToRoom"
    /\ step.resp.kind = "object" /\ step.resp.ok = "false"
    /\ step.result.outcome = "rejected"

\* C34 (member list without duplicates): the member list of currentRoom
\* never has two members with one userId; a 'room:presence' join for a
\* userId already in the list leaves the list as it was, a leave takes that
\* user's entry out and keeps the others in order, and an event for another
\* roomId (or with no room) leaves currentRoom as it was.
C34_PresenceKeepsDupFree ==
    /\ DupFree(MembersOf(currentRoom))
    /\ step.act = "presence" =>
          LET prev == step.before
              d == step.data
              was == MembersOf(prev)
              is == MembersOf(currentRoom)
          IN  IF prev = NoRoom \/ prev.roomId # d.roomId
              THEN currentRoom = prev
              ELSE /\ currentRoom.roomId = prev.roomId
                   /\ (d.event = "join" /\ HasMember(was, d.userId)) => is = was
                   /\ (d.event = "join" /\ ~HasMember(was, d.userId)) =>
                          is = Append(was, [userId |-> d.userId])
                   /\ d.event = "leave" =>
                          /\ ~HasMember(is, d.userId)
                          /\ is = SelectSeq(was, LAMBDA m : m.userId # d.userId)

C34_Witness ==
    /\ step.act = "presence"
    /\ step.before # NoRoom
    /\ step.before.roomId = step.data.roomId
    /\ step.data.event = "join"
    /\ Len(MembersOf(step.before)) = 2
    /\ HasMember(MembersOf(step.before), step.data.userId)
    /\ MembersOf(currentRoom) = MembersOf(step.before)

\* C35 (no room without a connection): whenever the provider's
\* isConnected is false its currentRoom is null, also when a joinRoom or
\* createRoom call that began before a disconnect completes after it.
C35_NoRoomOffline == ~isConnected => currentRoom = NoRoom

====
